---- MODULE Spec2Model ----
(***************************************************************************)
(* Model of lxd/db/operations.go: the accessors of the cluster database's  *)
(* "operations" table.  The table is the state; every accessor of          *)
(* ClusterTx is one action, which records the call and what it returned.   *)
(***************************************************************************)
EXTENDS Integers, Sequences, FiniteSets

\* ------------------------------------------------------------------ bounds
\* How many distinct operation UUIDs callers use.
MaxUUIDs == 2
\* The surrogate keys the store can hand out are 1..MaxID.
MaxID == MaxUUIDs

UUIDNames == <<"abc-1", "abc-2", "abc-3", "abc-4", "abc-5">>
UUIDs == {UUIDNames[i] : i \in 1..MaxUUIDs}
IDs == 1..MaxID

\* --------------------------------------------------- the reference tables
\* The nodes table (id, address) the queries join against.
nodes == {[id |-> 1, address |-> "10.0.0.1"], [id |-> 2, address |-> "10.0.0.2"]}
NodeIDs == {n.id : n \in nodes}

\* The projects table (id, name) the queries left-join against.
projects == {[id |-> 1, name |-> "default"], [id |-> 2, name |-> "blue"]}
\* Project names callers pass: "" is "no project", "ghost" does not resolve.
ProjectNames == {"", "default", "blue", "ghost"}

\* project_id IS NULL
NULL == 0

\* Values of OperationType.
OperationTypes == {1, 2}

\* Where the store can fail during one accessor call.
AllFaults == {"none", "prepare", "query", "scan", "rows", "exec", "affected", "project"}
NoFaults == {"none"}

VARIABLES
    rows,   \* the operations table: a set of [id, uuid, node_id, type, project_id]
    pre,    \* the operations table as it was before the last call
    last,   \* the last call: accessor, transaction's node, arguments, returned values
    txs,    \* the concurrent transactions: where each is, its node, its call
    commits \* the concurrent transactions that committed, in the order they did

vars == <<rows, pre, last, txs, commits>>

\* ------------------------------------------------------------------ errors
NoErr == [ctx |-> "", cause |-> "nil"]
ErrNoSuchObject == [ctx |-> "", cause |-> "ErrNoSuchObject"]
Errorf(msg) == [ctx |-> "", cause |-> msg]
\* An error of the underlying store (tx.Query, tx.Exec, tx.Prepare, Scan, ...).
StorageErr == Errorf("storage failure")

\* errors.Wrap: nil stays nil, otherwise the message is put in front and the
\* cause is kept.
Wrap(err, msg) ==
    IF err = NoErr THEN NoErr
    ELSE [ctx |-> IF err.ctx = "" THEN msg ELSE msg \o ": " \o err.ctx,
          cause |-> err.cause]

\* fmt.Errorf("query deleted %d rows instead of 1", n)
DeletedRowsErr(n) ==
    Errorf(CASE n = 0 -> "query deleted 0 rows instead of 1"
             [] n = 2 -> "query deleted 2 rows instead of 1"
             [] OTHER -> "query deleted several rows instead of 1")

\* What a call returns: the slice of operations, the slice of strings, the
\* int64 and the error (the ones a given accessor does not return stay zero).
Ret(ops, strs, id, err) == [ops |-> ops, strs |-> strs, id |-> id, err |-> err]

\* ----------------------------------------------------------- SQL fragments
\* JOIN nodes ON nodes.id = node_id
HasNode(r) == \E n \in nodes : n.id = r.node_id
AddressOf(nodeID) == (CHOOSE n \in nodes : n.id = nodeID).address

\* Faulty variant of InProject: an inner join on projects, which drops the
\* rows of no project.
InProject_InnerJoin(r, name) ==
    \E p \in projects : p.id = r.project_id /\ p.name = name

\* LEFT JOIN projects ... WHERE projects.name = ? OR operations.project_id IS NULL
InProject(r, name) ==
    \/ \E p \in projects : p.id = r.project_id /\ p.name = name
    \/ r.project_id = NULL

\* Faulty variant of Operation: dest() hands the uuid and address columns to
\* each other's field.
Operation_DestSwapped(r) ==
    [ID |-> r.id, UUID |-> AddressOf(r.node_id), NodeAddress |-> r.uuid, Type |-> r.type]

\* The Operation struct filled from one joined row.
Operation(r) ==
    [ID |-> r.id, UUID |-> r.uuid, NodeAddress |-> AddressOf(r.node_id), Type |-> r.type]

RECURSIVE OrderByID_Descending(_)
\* Faulty variant of OrderByID: ORDER BY operations.id DESC.
OrderByID_Descending(S) ==
    IF S = {} THEN <<>>
    ELSE LET m == CHOOSE r \in S : \A q \in S : r.id >= q.id
         IN  <<m>> \o OrderByID_Descending(S \ {m})

RECURSIVE OrderByID(_)
\* ORDER BY operations.id
OrderByID(S) ==
    IF S = {} THEN <<>>
    ELSE LET m == CHOOSE r \in S : \A q \in S : r.id <= q.id
         IN  <<m>> \o OrderByID(S \ {m})

RECURSIVE Distinct(_)
\* SELECT DISTINCT: every value once, at its first occurrence.
Distinct(s) ==
    IF s = <<>> THEN <<>>
    ELSE LET front == Distinct(SubSeq(s, 1, Len(s) - 1))
             x == s[Len(s)]
         IN  IF \E i \in 1..Len(front) : front[i] = x THEN front ELSE Append(front, x)

\* One Operation for every row delivered, in the order of delivery.
ScanAll(scan) == [i \in 1..Len(scan) |-> Operation(scan[i])]

RECURSIVE ScanOrders(_)
\* The orders in which a query without ORDER BY may deliver the rows of S.
ScanOrders(S) ==
    IF S = {} THEN {<<>>}
    ELSE UNION {{<<r>> \o t : t \in ScanOrders(S \ {r})} : r \in S}

\* The WHERE clause handed to operations(), applied to one row.
Where(where, r, arg) ==
    CASE where = "node_id=?" -> r.node_id = arg
      [] where = "id=?" -> r.id = arg
      [] where = "uuid=?" -> r.uuid = arg
      [] OTHER -> TRUE

\* --------------------------------------------------------------- accessors
\* func (c *ClusterTx) operations(where string, args ...interface{})
operations(tbl, where, arg, fault) ==
    LET matched == {r \in tbl : HasNode(r) /\ Where(where, r, arg)}
    IN  IF fault = "prepare" THEN Ret(<<>>, <<>>, 0, StorageErr)
        \* query.SelectObjects: the query, the Scan of a row, the iteration
        ELSE IF fault \in {"query", "rows"} \/ (fault = "scan" /\ matched # {})
        THEN Ret(<<>>, <<>>, 0, Wrap(StorageErr, "Failed to fetch operations"))
        ELSE Ret(ScanAll(OrderByID(matched)), <<>>, 0, NoErr)

\* Faulty variant of GetLocalOperations: no WHERE clause.
GetLocalOperations_AllNodes(tbl, nodeID, fault) == operations(tbl, "", nodeID, fault)

\* func (c *ClusterTx) GetLocalOperations()
GetLocalOperations(tbl, nodeID, fault) == operations(tbl, "node_id=?", nodeID, fault)

\* query.SelectStrings: the single string column of every row of the query.
SelectStrings(strs, fault) ==
    IF fault \in {"query", "rows"} \/ (fault = "scan" /\ strs # <<>>)
    THEN Ret(<<>>, <<>>, 0, StorageErr)
    ELSE Ret(<<>>, strs, 0, NoErr)

\* SELECT uuid; SELECT nodes.address: the column of every row delivered.
UUIDColumn(scan) == [i \in 1..Len(scan) |-> scan[i].uuid]
AddressColumn(scan) == [i \in 1..Len(scan) |-> AddressOf(scan[i].node_id)]

\* Faulty variant of GetLocalOperationsUUIDs: no WHERE clause.
GetLocalOperationsUUIDs_AllNodes(tbl, nodeID, fault) ==
    {SelectStrings(UUIDColumn(scan), fault) : scan \in ScanOrders(tbl)}

\* func (c *ClusterTx) GetLocalOperationsUUIDs().  The query has no ORDER BY:
\* the value is the set of results the call may return, one for every order
\* in which the store may deliver the rows.
GetLocalOperationsUUIDs(tbl, nodeID, fault) ==
    {SelectStrings(UUIDColumn(scan), fault) :
        scan \in ScanOrders({r \in tbl : r.node_id = nodeID})}

\* func (c *ClusterTx) GetNodesWithRunningOperations(project string); no
\* ORDER BY either.
GetNodesWithRunningOperations(tbl, project, fault) ==
    {SelectStrings(Distinct(AddressColumn(scan)), fault) :
        scan \in ScanOrders({r \in tbl : HasNode(r) /\ InProject(r, project)})}

\* The body of GetOperationsOfType once the store delivers the rows matched.
ScanOperationsOfType(matched, fault) ==
    IF fault = "query" THEN Ret(<<>>, <<>>, 0, StorageErr)
    ELSE IF fault = "scan" /\ matched # <<>> THEN Ret(<<>>, <<>>, 0, StorageErr)
    \* rows.Err() != nil: "return nil, err" returns the err of tx.Query, nil here
    ELSE IF fault = "rows" THEN Ret(<<>>, <<>>, 0, NoErr)
    ELSE Ret(ScanAll(matched), <<>>, 0, NoErr)

\* Faulty variant of GetOperationsOfType: the type is not part of the WHERE clause.
GetOperationsOfType_AnyType(tbl, projectName, opType, fault) ==
    {ScanOperationsOfType(scan, fault) :
        scan \in ScanOrders({r \in tbl : HasNode(r) /\ InProject(r, projectName)})}

\* func (c *ClusterTx) GetOperationsOfType(projectName string, opType OperationType);
\* no ORDER BY: the set of results the call may return.
GetOperationsOfType(tbl, projectName, opType, fault) ==
    {ScanOperationsOfType(scan, fault) :
        scan \in ScanOrders({r \in tbl : /\ HasNode(r)
                                         /\ InProject(r, projectName)
                                         /\ r.type = opType})}

\* Faulty variant of OneOperation: no row is answered with the zero Operation
\* and no error.
OneOperation_ZeroValue(r) ==
    IF r.err # NoErr THEN Ret(<<>>, <<>>, 0, r.err)
    ELSE CASE Len(r.ops) = 1 -> Ret(<<r.ops[1]>>, <<>>, 0, NoErr)
           [] Len(r.ops) > 1 -> Ret(<<>>, <<>>, 0, Errorf("More than one operation matches"))
           [] OTHER -> Ret(<<>>, <<>>, 0, NoErr)

\* The switch on len(operations) shared by the two single-row getters.
OneOperation(r) ==
    IF r.err # NoErr THEN Ret(<<>>, <<>>, 0, r.err)
    ELSE CASE Len(r.ops) = 0 -> Ret(<<>>, <<>>, 0, ErrNoSuchObject)
           [] Len(r.ops) = 1 -> Ret(<<r.ops[1]>>, <<>>, 0, NoErr)
           [] OTHER -> Ret(<<>>, <<>>, 0, Errorf("More than one operation matches"))

\* Faulty variant of GetOperationWithID: the key is compared with node_id.
GetOperationWithID_ByNode(tbl, opID, fault) ==
    OneOperation(operations(tbl, "node_id=?", opID, fault))

\* func (c *ClusterTx) GetOperationWithID(opID int)
GetOperationWithID(tbl, opID, fault) == OneOperation(operations(tbl, "id=?", opID, fault))

\* Faulty variant of GetOperationByUUID: no WHERE clause.
GetOperationByUUID_NoWhere(tbl, uuid, fault) == OneOperation(operations(tbl, "", uuid, fault))

\* func (c *ClusterTx) GetOperationByUUID(uuid string)
GetOperationByUUID(tbl, uuid, fault) == OneOperation(operations(tbl, "uuid=?", uuid, fault))

\* c.GetProjectID(project): the id of the project of that name.
GetProjectID(project, fault) ==
    IF fault = "project" THEN [id |-> -1, err |-> StorageErr]
    ELSE IF \E p \in projects : p.name = project
    THEN [id |-> (CHOOSE p \in projects : p.name = project).id, err |-> NoErr]
    ELSE [id |-> -1, err |-> ErrNoSuchObject]

\* query.UpsertObject(tx, "operations", columns, values): INSERT OR REPLACE.
\* The row that conflicts on the unique uuid column is deleted, the new row is
\* inserted under the key newID the store assigns, and that key is returned.
UpsertObject(tbl, newID, uuid, nodeID, typ, projectID, fault) ==
    IF fault = "exec" THEN [tbl |-> tbl, ret |-> Ret(<<>>, <<>>, -1, StorageErr)]
    ELSE [tbl |-> {r \in tbl : r.uuid # uuid /\ r.id # newID} \cup
                  {[id |-> newID, uuid |-> uuid, node_id |-> nodeID,
                    type |-> typ, project_id |-> projectID]},
          ret |-> Ret(<<>>, <<>>, newID, NoErr)]

\* The keys the store may assign to a row that replaces the rows of uuid.
FreeIDs(tbl, uuid) == IDs \ {r.id : r \in {q \in tbl : q.uuid # uuid}}

\* Faulty variant of CreateOperation: the project is not passed on.
CreateOperation_ProjectDropped(tbl, nodeID, project, uuid, typ, newID, fault) ==
    LET p == IF project # "" THEN GetProjectID(project, fault)
             ELSE [id |-> NULL, err |-> NoErr]
    IN  IF p.err # NoErr
        THEN [tbl |-> tbl, ret |-> Ret(<<>>, <<>>, -1, Wrap(p.err, "Fetch project ID"))]
        ELSE UpsertObject(tbl, newID, uuid, nodeID, typ, NULL, fault)

\* Faulty variant of CreateOperation: the values of node_id and type are in
\* each other's place.
CreateOperation_ValuesSwapped(tbl, nodeID, project, uuid, typ, newID, fault) ==
    LET p == IF project # "" THEN GetProjectID(project, fault)
             ELSE [id |-> NULL, err |-> NoErr]
    IN  IF p.err # NoErr
        THEN [tbl |-> tbl, ret |-> Ret(<<>>, <<>>, -1, Wrap(p.err, "Fetch project ID"))]
        ELSE UpsertObject(tbl, newID, uuid, typ, nodeID, p.id, fault)

\* Faulty variant of CreateOperation: the project is looked up also when its
\* name is empty.
CreateOperation_AlwaysLookup(tbl, nodeID, project, uuid, typ, newID, fault) ==
    LET p == GetProjectID(project, fault)
    IN  IF p.err # NoErr
        THEN [tbl |-> tbl, ret |-> Ret(<<>>, <<>>, -1, Wrap(p.err, "Fetch project ID"))]
        ELSE UpsertObject(tbl, newID, uuid, nodeID, typ, p.id, fault)

\* Faulty variant of CreateOperation: a row of that uuid is looked for first
\* and, when there is one, it is kept and its key returned.
CreateOperation_KeepExisting(tbl, nodeID, project, uuid, typ, newID, fault) ==
    LET p == IF project # "" THEN GetProjectID(project, fault)
             ELSE [id |-> NULL, err |-> NoErr]
    IN  IF p.err # NoErr
        THEN [tbl |-> tbl, ret |-> Ret(<<>>, <<>>, -1, Wrap(p.err, "Fetch project ID"))]
        ELSE IF \E r \in tbl : r.uuid = uuid
        THEN [tbl |-> tbl,
              ret |-> Ret(<<>>, <<>>, (CHOOSE r \in tbl : r.uuid = uuid).id, NoErr)]
        ELSE UpsertObject(tbl, newID, uuid, nodeID, typ, p.id, fault)

\* func (c *ClusterTx) CreateOperation(project, uuid string, typ OperationType)
CreateOperation(tbl, nodeID, project, uuid, typ, newID, fault) ==
    LET p == IF project # "" THEN GetProjectID(project, fault)
             ELSE [id |-> NULL, err |-> NoErr]
    IN  IF p.err # NoErr
        THEN [tbl |-> tbl, ret |-> Ret(<<>>, <<>>, -1, Wrap(p.err, "Fetch project ID"))]
        ELSE UpsertObject(tbl, newID, uuid, nodeID, typ, p.id, fault)

\* Faulty variant of RemoveOperation: the number of rows deleted is not looked at.
RemoveOperation_NoRowCheck(tbl, uuid, fault) ==
    IF fault \in {"exec", "affected"} THEN [tbl |-> tbl, ret |-> Ret(<<>>, <<>>, 0, StorageErr)]
    ELSE [tbl |-> {r \in tbl : r.uuid # uuid}, ret |-> Ret(<<>>, <<>>, 0, NoErr)]

\* Faulty variant of RemoveOperation: DELETE FROM operations, without WHERE.
RemoveOperation_AllRows(tbl, uuid, fault) ==
    IF fault \in {"exec", "affected"} THEN [tbl |-> tbl, ret |-> Ret(<<>>, <<>>, 0, StorageErr)]
    ELSE IF Cardinality(tbl) # 1
    THEN [tbl |-> {}, ret |-> Ret(<<>>, <<>>, 0, DeletedRowsErr(Cardinality(tbl)))]
    ELSE [tbl |-> {}, ret |-> Ret(<<>>, <<>>, 0, NoErr)]

\* func (c *ClusterTx) RemoveOperation(uuid string)
RemoveOperation(tbl, uuid, fault) ==
    LET deleted == {r \in tbl : r.uuid = uuid}
        n == Cardinality(deleted)
    IN  IF fault = "exec" THEN [tbl |-> tbl, ret |-> Ret(<<>>, <<>>, 0, StorageErr)]
        ELSE IF fault = "affected"
        THEN [tbl |-> tbl \ deleted, ret |-> Ret(<<>>, <<>>, 0, StorageErr)]
        ELSE IF n # 1
        THEN [tbl |-> tbl \ deleted, ret |-> Ret(<<>>, <<>>, 0, DeletedRowsErr(n))]
        ELSE [tbl |-> tbl \ deleted, ret |-> Ret(<<>>, <<>>, 0, NoErr)]

\* Faulty variant of removeNodeOperations: deleting no row is an error, as it
\* is in RemoveOperation.
removeNodeOperations_RowCheck(tbl, nodeID, fault) ==
    IF fault = "exec" THEN [tbl |-> tbl, ret |-> Ret(<<>>, <<>>, 0, StorageErr)]
    ELSE IF {r \in tbl : r.node_id = nodeID} = {}
    THEN [tbl |-> tbl, ret |-> Ret(<<>>, <<>>, 0, DeletedRowsErr(0))]
    ELSE [tbl |-> {r \in tbl : r.node_id # nodeID}, ret |-> Ret(<<>>, <<>>, 0, NoErr)]

\* Faulty variant of removeNodeOperations: DELETE FROM operations, without WHERE.
removeNodeOperations_AllRows(tbl, nodeID, fault) ==
    IF fault = "exec" THEN [tbl |-> tbl, ret |-> Ret(<<>>, <<>>, 0, StorageErr)]
    ELSE [tbl |-> {}, ret |-> Ret(<<>>, <<>>, 0, NoErr)]

\* func (c *ClusterTx) removeNodeOperations(nodeID int64)
removeNodeOperations(tbl, nodeID, fault) ==
    IF fault = "exec" THEN [tbl |-> tbl, ret |-> Ret(<<>>, <<>>, 0, StorageErr)]
    ELSE [tbl |-> {r \in tbl : r.node_id # nodeID}, ret |-> Ret(<<>>, <<>>, 0, NoErr)]

\* ----------------------------------------------------------------- actions
\* The record of one call; node is c.nodeID of the transaction that made it.
Call(op, node, project, uuid, typ, id, fault, ret) ==
    [op |-> op, node |-> node, project |-> project, uuid |-> uuid, type |-> typ,
     id |-> id, fault |-> fault, ret |-> ret]

NoCall == Call("none", 0, "", "", 0, 0, "none", Ret(<<>>, <<>>, 0, NoErr))

\* A transaction is open and has not yet made its call.
Idle == last = NoCall

Read(call) ==
    /\ Idle
    /\ last' = call
    /\ pre' = rows
    /\ UNCHANGED <<rows, txs, commits>>

Write(call, tbl) ==
    /\ Idle
    /\ last' = call
    /\ pre' = rows
    /\ rows' = tbl
    /\ UNCHANGED <<txs, commits>>

GetLocalOperationsCall(F) ==
    /\ Idle
    /\ \E node \in NodeIDs, fault \in F :
        Read(Call("GetLocalOperations", node, "", "", 0, 0, fault,
                  GetLocalOperations(rows, node, fault)))

GetLocalOperationsUUIDsCall(F) ==
    /\ Idle
    /\ \E node \in NodeIDs, fault \in F :
        \E ret \in GetLocalOperationsUUIDs(rows, node, fault) :
            Read(Call("GetLocalOperationsUUIDs", node, "", "", 0, 0, fault, ret))

GetNodesWithRunningOperationsCall(F) ==
    /\ Idle
    /\ \E node \in NodeIDs, project \in ProjectNames, fault \in F :
        \E ret \in GetNodesWithRunningOperations(rows, project, fault) :
            Read(Call("GetNodesWithRunningOperations", node, project, "", 0, 0, fault, ret))

GetOperationsOfTypeCall(F) ==
    /\ Idle
    /\ \E node \in NodeIDs, project \in ProjectNames, typ \in OperationTypes,
       fault \in F :
        \E ret \in GetOperationsOfType(rows, project, typ, fault) :
            Read(Call("GetOperationsOfType", node, project, "", typ, 0, fault, ret))

GetOperationWithIDCall(F) ==
    /\ Idle
    /\ \E node \in NodeIDs, opID \in IDs, fault \in F :
        Read(Call("GetOperationWithID", node, "", "", 0, opID, fault,
                  GetOperationWithID(rows, opID, fault)))

GetOperationByUUIDCall(F) ==
    /\ Idle
    /\ \E node \in NodeIDs, uuid \in UUIDs, fault \in F :
        Read(Call("GetOperationByUUID", node, "", uuid, 0, 0, fault,
                  GetOperationByUUID(rows, uuid, fault)))

CreateOperationCall(F) ==
    /\ Idle
    /\ \E node \in NodeIDs, project \in ProjectNames, uuid \in UUIDs,
       typ \in OperationTypes, fault \in F :
        \E newID \in FreeIDs(rows, uuid) :
            LET r == CreateOperation(rows, node, project, uuid, typ, newID, fault)
            IN  Write(Call("CreateOperation", node, project, uuid, typ, 0, fault, r.ret),
                      r.tbl)

RemoveOperationCall(F) ==
    /\ Idle
    /\ \E node \in NodeIDs, uuid \in UUIDs, fault \in F :
        LET r == RemoveOperation(rows, uuid, fault)
        IN  Write(Call("RemoveOperation", node, "", uuid, 0, 0, fault, r.ret), r.tbl)

\* id is the nodeID argument: the node whose operations are removed.
removeNodeOperationsCall(F) ==
    /\ Idle
    /\ \E node \in NodeIDs, nodeID \in NodeIDs, fault \in F :
        LET r == removeNodeOperations(rows, nodeID, fault)
        IN  Write(Call("removeNodeOperations", node, "", "", 0, nodeID, fault, r.ret),
                  r.tbl)

\* The caller's transaction ends with what its call did, and the next one opens.
Commit ==
    /\ ~Idle
    /\ last' = NoCall
    /\ pre' = rows
    /\ UNCHANGED <<rows, txs, commits>>

\* ------------------------------------------------ concurrent transactions
\* Two transactions that run at the same time, each calling CreateOperation.
Txs == {1, 2}

NoTx == [pc |-> "idle", node |-> 0, project |-> "", uuid |-> "", type |-> 0,
         ret |-> Ret(<<>>, <<>>, 0, NoErr)]

\* Transaction t has written the row of uuid and has not committed yet.
HoldsRow(t, uuid) ==
    /\ txs[t].pc = "called"
    /\ txs[t].ret.err = NoErr
    /\ txs[t].uuid = uuid

\* A transaction is opened for a node: c.nodeID is fixed from here on.
TxBegin(t) ==
    /\ txs[t].pc = "idle"
    /\ \E node \in NodeIDs : txs' = [txs EXCEPT ![t] = [NoTx EXCEPT !.pc = "open", !.node = node]]
    /\ UNCHANGED <<rows, pre, last, commits>>

\* The transaction calls CreateOperation.  The store makes it wait while
\* another transaction holds an uncommitted write of the same uuid.
TxCreateOperation(t, F) ==
    /\ txs[t].pc = "open"
    /\ \E project \in ProjectNames, uuid \in UUIDs, typ \in OperationTypes, fault \in F :
        /\ \A o \in Txs \ {t} : ~HoldsRow(o, uuid)
        /\ \E newID \in FreeIDs(rows, uuid) :
            LET r == CreateOperation(rows, txs[t].node, project, uuid, typ, newID, fault)
            IN  /\ rows' = r.tbl
                /\ txs' = [txs EXCEPT ![t] = [pc |-> "called", node |-> txs[t].node,
                                              project |-> project, uuid |-> uuid,
                                              type |-> typ, ret |-> r.ret]]
    /\ UNCHANGED <<pre, last, commits>>

\* The call returned no error and the caller commits.
TxCommit(t) ==
    /\ txs[t].pc = "called"
    /\ txs[t].ret.err = NoErr
    /\ txs' = [txs EXCEPT ![t].pc = "committed"]
    /\ commits' = Append(commits, t)
    /\ UNCHANGED <<rows, pre, last>>

\* The call returned an error, having written nothing, and the caller rolls back.
TxRollback(t) ==
    /\ txs[t].pc = "called"
    /\ txs[t].ret.err # NoErr
    /\ txs' = [txs EXCEPT ![t].pc = "rolledback"]
    /\ UNCHANGED <<rows, pre, last, commits>>

Init ==
    /\ rows = {}
    /\ pre = {}
    /\ last = NoCall
    /\ txs = [t \in Txs |-> NoTx]
    /\ commits = <<>>

NextWith(F) ==
    \/ Commit
    \/ GetLocalOperationsCall(F)
    \/ GetLocalOperationsUUIDsCall(F)
    \/ GetNodesWithRunningOperationsCall(F)
    \/ GetOperationsOfTypeCall(F)
    \/ GetOperationWithIDCall(F)
    \/ GetOperationByUUIDCall(F)
    \/ CreateOperationCall(F)
    \/ RemoveOperationCall(F)
    \/ removeNodeOperationsCall(F)

\* The store works: no call meets a storage failure.
Next == NextWith(NoFaults)

Spec == Init /\ [][Next]_vars

\* The store may fail at any step of any call.
NextFault == NextWith(AllFaults)

SpecFault == Init /\ [][NextFault]_vars

\* Two transactions run CreateOperation concurrently against a working store.
NextConc ==
    \E t \in Txs :
        \/ TxBegin(t)
        \/ TxCreateOperation(t, NoFaults)
        \/ TxCommit(t)
        \/ TxRollback(t)

SpecConc == Init /\ [][NextConc]_vars

TypeOK ==
    /\ \A r \in rows : r.id \in IDs /\ r.uuid \in UUIDs /\ r.node_id \in NodeIDs
    /\ last.node \in NodeIDs \cup {0}

\* ------------------------------------------------------- claim vocabulary
\* The last call was accessor op and it returned no error.
Succeeded(op) == last.op = op /\ last.ret.err = NoErr

\* The operation o is what a reader is to see of the stored row r.
Describes(o, r) ==
    /\ o.ID = r.id
    /\ o.UUID = r.uuid
    /\ o.Type = r.type
    /\ \E n \in nodes : n.id = r.node_id /\ n.address = o.NodeAddress

\* The sequence ops holds the rows of S, each once, and nothing else.
ExactlyRows(ops, S) ==
    /\ Len(ops) = Cardinality(S)
    /\ \A r \in S : \E i \in 1..Len(ops) : Describes(ops[i], r)
    /\ \A i \in 1..Len(ops) : \E r \in S : Describes(ops[i], r)

\* The row belongs to the project of that name; the row belongs to no project.
ScopedTo(r, name) == \E p \in projects : p.name = name /\ p.id = r.project_id
Global(r) == r.project_id = NULL

Resolvable(name) == \E p \in projects : p.name = name

RowsOfUUID(tbl, uuid) == {r \in tbl : r.uuid = uuid}
RowsOfNode(tbl, nodeID) == {r \in tbl : r.node_id = nodeID}

\* ------------------------------------------------------------------ claims
\* C1: after CreateOperation(p, u, t) succeeds in node N's transaction,
\* GetOperationByUUID(u) succeeds and returns the operation whose UUID is u,
\* whose Type is t and whose NodeAddress is the address of N.
C1_CreateThenGetByUUID ==
    Succeeded("CreateOperation") =>
        LET g == GetOperationByUUID(rows, last.uuid, "none")
        IN  /\ g.err = NoErr
            /\ Len(g.ops) = 1
            /\ g.ops[1].UUID = last.uuid
            /\ g.ops[1].Type = last.type
            /\ \E n \in nodes : n.id = last.node /\ n.address = g.ops[1].NodeAddress

\* A create in a project that resolves replaced the row another node owned.
C1_Witness ==
    /\ Succeeded("CreateOperation")
    /\ Resolvable(last.project)
    /\ \E r \in RowsOfUUID(pre, last.uuid) : r.node_id # last.node
    /\ GetOperationByUUID(rows, last.uuid, "none").err = NoErr

\* C2: the table never holds two rows of one UUID, and after a successful
\* CreateOperation the one row of its UUID carries the type and the project of
\* that call, whatever row of that UUID was there before.
C2_OneRowPerUUID ==
    /\ \A u \in UUIDs : Cardinality(RowsOfUUID(rows, u)) <= 1
    /\ Succeeded("CreateOperation") =>
           /\ Cardinality(RowsOfUUID(rows, last.uuid)) = 1
           /\ \A r \in RowsOfUUID(rows, last.uuid) :
                  /\ r.type = last.type
                  /\ IF last.project = "" THEN Global(r) ELSE ScopedTo(r, last.project)

\* The second create of a UUID, with another type and another project.
C2_Witness ==
    /\ Succeeded("CreateOperation")
    /\ \E r \in RowsOfUUID(pre, last.uuid) :
           /\ r.type # last.type
           /\ ~Global(r)
           /\ ~ScopedTo(r, last.project)
    /\ Cardinality(RowsOfUUID(rows, last.uuid)) = 1

\* C3: RemoveOperation(u) with no row of UUID u fails with the error that says
\* that no row was deleted, and changes nothing; with a row of UUID u it
\* succeeds, no row of UUID u is left and GetOperationByUUID(u) then fails with
\* ErrNoSuchObject.
C3_RemoveByUUID ==
    last.op = "RemoveOperation" =>
        IF RowsOfUUID(pre, last.uuid) = {}
        THEN /\ last.ret.err # NoErr
             /\ last.ret.err.cause = "query deleted 0 rows instead of 1"
             /\ rows = pre
        ELSE /\ last.ret.err = NoErr
             /\ RowsOfUUID(rows, last.uuid) = {}
             /\ GetOperationByUUID(rows, last.uuid, "none").err = ErrNoSuchObject

\* A row was removed by its UUID and the table still holds another row.
C3_Witness ==
    /\ Succeeded("RemoveOperation")
    /\ RowsOfUUID(pre, last.uuid) # {}
    /\ rows # {}

\* C4: GetOperationWithID and GetOperationByUUID return ErrNoSuchObject, and no
\* operation, when no row has the key; what they return without error is the
\* one row that has the key.
C4_GetNotFound ==
    /\ last.op = "GetOperationWithID" =>
           LET m == {r \in rows : r.id = last.id}
           IN  /\ m = {} => last.ret.err = ErrNoSuchObject /\ last.ret.ops = <<>>
               /\ last.ret.err = NoErr =>
                      /\ Cardinality(m) = 1
                      /\ ExactlyRows(last.ret.ops, m)
    /\ last.op = "GetOperationByUUID" =>
           LET m == RowsOfUUID(rows, last.uuid)
           IN  /\ m = {} => last.ret.err = ErrNoSuchObject /\ last.ret.ops = <<>>
               /\ last.ret.err = NoErr =>
                      /\ Cardinality(m) = 1
                      /\ ExactlyRows(last.ret.ops, m)

\* A get by a key no row has, in a table that holds rows.
C4_Witness ==
    /\ last.op \in {"GetOperationWithID", "GetOperationByUUID"}
    /\ last.ret.err = ErrNoSuchObject
    /\ rows # {}

\* C5: GetLocalOperations in node A's transaction returns, without error,
\* exactly the operations of the rows node A owns; the empty sequence when it
\* owns none.
C5_ListByNode ==
    last.op = "GetLocalOperations" =>
        /\ last.ret.err = NoErr
        /\ ExactlyRows(last.ret.ops, RowsOfNode(rows, last.node))
        /\ RowsOfNode(rows, last.node) = {} => last.ret.ops = <<>>

\* Node A lists its operation while another node owns one too.
C5_Witness ==
    /\ Succeeded("GetLocalOperations")
    /\ Len(last.ret.ops) >= 1
    /\ \E r \in rows : r.node_id # last.node

\* C6: GetNodesWithRunningOperations(X) returns the address of a node exactly
\* when the node owns a row of project X or a row of no project, every address
\* once.
C6_NodesWithOperations ==
    last.op = "GetNodesWithRunningOperations" =>
        LET out == last.ret.strs
        IN  /\ last.ret.err = NoErr
            /\ \A n \in nodes :
                   (\E i \in 1..Len(out) : out[i] = n.address) <=>
                   (\E r \in RowsOfNode(rows, n.id) : ScopedTo(r, last.project) \/ Global(r))
            /\ \A i \in 1..Len(out) : \E n \in nodes : n.address = out[i]
            /\ \A i, j \in 1..Len(out) : out[i] = out[j] => i = j

\* One node is returned for its two rows, once; the node that owns only a row
\* of another project is not returned.
C6_Witness ==
    /\ Succeeded("GetNodesWithRunningOperations")
    /\ Len(last.ret.strs) = 1
    /\ \E r \in rows : ~Global(r) /\ ~ScopedTo(r, last.project)
    /\ \E r \in rows : Global(r)

\* C7: removeNodeOperations(n) returns no error, whether n owned rows or not,
\* and GetLocalOperations in node n's transaction then returns the empty
\* sequence.
C7_RemoveAllThenList ==
    last.op = "removeNodeOperations" =>
        /\ last.ret.err = NoErr
        /\ GetLocalOperations(rows, last.id, "none").err = NoErr
        /\ GetLocalOperations(rows, last.id, "none").ops = <<>>

\* The rows of a node were removed and a row of another node is left.
C7_Witness ==
    /\ Succeeded("removeNodeOperations")
    /\ RowsOfNode(pre, last.id) # {}
    /\ rows # {}

\* C8: the rows a CreateOperation writes are rows of its UUID owned by the
\* node of its transaction, also when another node owned that UUID before.
C8_CreateOwnsLocally ==
    last.op = "CreateOperation" =>
        /\ \A r \in rows \ pre : r.node_id = last.node /\ r.uuid = last.uuid
        /\ Succeeded("CreateOperation") =>
               \A r \in RowsOfUUID(rows, last.uuid) : r.node_id = last.node

\* The UUID was owned by another node before the create.
C8_Witness ==
    /\ Succeeded("CreateOperation")
    /\ \E r \in RowsOfUUID(pre, last.uuid) : r.node_id # last.node
    /\ \E r \in RowsOfUUID(rows, last.uuid) : r.node_id = last.node

\* C9: CreateOperation with a project name that is not empty and does not
\* resolve fails with ErrNoSuchObject as its cause and leaves the table as it
\* was; with the empty project name it succeeds without a project lookup and
\* the row it writes has no project.
C9_CreateUnknownProject ==
    last.op = "CreateOperation" =>
        /\ (last.project # "" /\ ~Resolvable(last.project)) =>
               /\ last.ret.err # NoErr
               /\ last.ret.err.cause = "ErrNoSuchObject"
               /\ last.ret.id = -1
               /\ rows = pre
        /\ last.project = "" =>
               /\ last.ret.err = NoErr
               /\ \E r \in RowsOfUUID(rows, last.uuid) : Global(r)

\* The create that failed named a UUID that has a row.
C9_Witness ==
    /\ last.op = "CreateOperation"
    /\ last.ret.err.cause = "ErrNoSuchObject"
    /\ RowsOfUUID(pre, last.uuid) # {}
    /\ rows = pre

\* C10: GetOperationsOfType(X, t) returns exactly the operations of the rows
\* of type t that belong to project X or to no project.
C10_ListByType ==
    last.op = "GetOperationsOfType" =>
        /\ last.ret.err = NoErr
        /\ ExactlyRows(last.ret.ops,
                       {r \in rows : r.type = last.type /\ (ScopedTo(r, last.project) \/ Global(r))})

\* A global operation is returned and a row of the table is not.
C10_Witness ==
    /\ Succeeded("GetOperationsOfType")
    /\ \E i \in 1..Len(last.ret.ops) : \E r \in rows : Describes(last.ret.ops[i], r) /\ Global(r)
    /\ Len(last.ret.ops) < Cardinality(rows)

\* C11: the int64 a successful CreateOperation returns is the key of the row
\* it wrote: GetOperationWithID of it, before any other write, returns the
\* operation of the call's UUID and type, whether the UUID was new or not.
C11_CreateReturnsKey ==
    Succeeded("CreateOperation") =>
        LET g == GetOperationWithID(rows, last.ret.id, "none")
        IN  /\ g.err = NoErr
            /\ Len(g.ops) = 1
            /\ g.ops[1].ID = last.ret.id
            /\ g.ops[1].UUID = last.uuid
            /\ g.ops[1].Type = last.type

\* The create replaced a row, and the row it wrote has another key.
C11_Witness ==
    /\ Succeeded("CreateOperation")
    /\ \E r \in RowsOfUUID(pre, last.uuid) : r.id # last.ret.id
    /\ GetOperationWithID(rows, last.ret.id, "none").err = NoErr

\* ------------------------------------------------------- storage failures
\* The rows the query of the last call matches.
Matched ==
    CASE last.op = "GetLocalOperations" -> RowsOfNode(pre, last.node)
      [] last.op = "GetLocalOperationsUUIDs" -> RowsOfNode(pre, last.node)
      [] last.op = "GetNodesWithRunningOperations" ->
             {r \in pre : ScopedTo(r, last.project) \/ Global(r)}
      [] last.op = "GetOperationsOfType" ->
             {r \in pre : r.type = last.type /\ (ScopedTo(r, last.project) \/ Global(r))}
      [] last.op = "GetOperationWithID" -> {r \in pre : r.id = last.id}
      [] last.op = "GetOperationByUUID" -> RowsOfUUID(pre, last.uuid)
      [] OTHER -> {}

\* The steps at which the accessor of the last call uses the store.
StoreSteps ==
    CASE last.op \in {"GetLocalOperations", "GetOperationWithID", "GetOperationByUUID"} ->
             {"prepare", "query", "scan", "rows"}
      [] last.op \in {"GetLocalOperationsUUIDs", "GetNodesWithRunningOperations",
                      "GetOperationsOfType"} -> {"query", "scan", "rows"}
      [] last.op = "CreateOperation" ->
             IF last.project = "" THEN {"exec"} ELSE {"project", "exec"}
      [] last.op = "RemoveOperation" -> {"exec", "affected"}
      [] last.op = "removeNodeOperations" -> {"exec"}
      [] OTHER -> {}

\* The store failed during the last call: at a step the accessor takes, and,
\* for the Scan of a row, with a row to scan.
StoreFailed ==
    /\ last.fault \in StoreSteps
    /\ last.fault = "scan" => Matched # {}

\* C13: a call during which the store failed returns an error.
C13_NoSwallowedFailure == StoreFailed => last.ret.err # NoErr

\* What holds of the code: a call during which the store failed returns an
\* error, except GetOperationsOfType when the iteration of its rows failed.
C13_OnlyRowsErrOfTypeSwallowed ==
    (StoreFailed /\ ~(last.op = "GetOperationsOfType" /\ last.fault = "rows")) =>
        last.ret.err # NoErr

\* ---------------------------------------------------------------- ordering
Ascending(ops) == \A i, j \in 1..Len(ops) : i < j => ops[i].ID < ops[j].ID

\* C14, as claimed: GetLocalOperations and GetOperationsOfType return their
\* operations in strictly ascending order of ID.
C14_AllListsAscending ==
    last.op \in {"GetLocalOperations", "GetOperationsOfType"} => Ascending(last.ret.ops)

\* C14, as it holds: GetLocalOperations, which goes through operations(),
\* returns its operations in strictly ascending order of ID.
C14_ListByNodeAscending ==
    last.op = "GetLocalOperations" => Ascending(last.ret.ops)

\* A node lists its two operations.
C14_Witness ==
    /\ Succeeded("GetLocalOperations")
    /\ Len(last.ret.ops) >= 2

\* C15: the UUIDs GetLocalOperationsUUIDs returns are the UUIDs of the
\* operations GetLocalOperations returns in the same transaction.
C15_UUIDsMatchListByNode ==
    last.op = "GetLocalOperationsUUIDs" =>
        LET ops == GetLocalOperations(rows, last.node, "none").ops
        IN  /\ last.ret.err = NoErr
            /\ {last.ret.strs[i] : i \in 1..Len(last.ret.strs)} =
               {ops[i].UUID : i \in 1..Len(ops)}

\* A node lists the UUID of its operation while another node owns one too.
C15_Witness ==
    /\ Succeeded("GetLocalOperationsUUIDs")
    /\ Len(last.ret.strs) >= 1
    /\ \E r \in rows : r.node_id # last.node

\* C16: no GetOperationWithID and no GetOperationByUUID returns "More than one
\* operation matches", and no RemoveOperation deletes more than one row.
C16_NoAmbiguousMatch ==
    /\ \A id \in IDs :
           GetOperationWithID(rows, id, "none").err.cause # "More than one operation matches"
    /\ \A u \in UUIDs :
           GetOperationByUUID(rows, u, "none").err.cause # "More than one operation matches"
    /\ last.op = "RemoveOperation" =>
           /\ Cardinality(pre \ rows) <= 1
           /\ last.ret.err.cause \notin {"query deleted 2 rows instead of 1",
                                         "query deleted several rows instead of 1"}

\* A get by UUID succeeds in a table of several rows.
C16_Witness ==
    /\ Succeeded("GetOperationByUUID")
    /\ Cardinality(rows) >= 2

\* C17: removeNodeOperations(n) deletes the rows node n owns and leaves every
\* other row as it was, whatever the node of the transaction.
C17_RemoveAllFrame ==
    last.op = "removeNodeOperations" => rows = {r \in pre : r.node_id # last.id}

\* A transaction of one node removes the rows of another; its own row stays.
C17_Witness ==
    /\ Succeeded("removeNodeOperations")
    /\ last.node # last.id
    /\ RowsOfNode(pre, last.id) # {}
    /\ RowsOfNode(rows, last.node) # {}

\* C18: RemoveOperation(u) leaves every row of another UUID as it was, whether
\* it succeeds or fails, and removes the row of UUID u whichever node owns it.
C18_RemoveByUUIDFrame ==
    last.op = "RemoveOperation" =>
        /\ {r \in rows : r.uuid # last.uuid} = {r \in pre : r.uuid # last.uuid}
        /\ RowsOfUUID(rows, last.uuid) = {}
        /\ RowsOfUUID(pre, last.uuid) # {} => last.ret.err = NoErr

\* A transaction of one node removed the row another node owns; a row is left.
C18_Witness ==
    /\ Succeeded("RemoveOperation")
    /\ \E r \in RowsOfUUID(pre, last.uuid) : r.node_id # last.node
    /\ rows # {}

\* ------------------------------------------------------------- concurrency
Finished(t) == txs[t].pc \in {"committed", "rolledback"}

\* The row of the table is the one transaction t asked for.
WrittenBy(r, t) ==
    /\ r.uuid = txs[t].uuid
    /\ r.node_id = txs[t].node
    /\ r.type = txs[t].type
    /\ IF txs[t].project = "" THEN Global(r) ELSE ScopedTo(r, txs[t].project)

\* C12: two concurrent transactions that call CreateOperation with the same
\* UUID both get through: a call whose project resolves returns no error, a
\* transaction that has not finished is never stuck, and once both have
\* committed the table holds one row of that UUID, with the node, the type and
\* the project of the transaction that committed last.
C12_LastWriterWins ==
    /\ \A t \in Txs :
           (txs[t].pc \in {"called", "committed"}
              /\ (txs[t].project = "" \/ Resolvable(txs[t].project))) =>
               txs[t].ret.err = NoErr
    /\ (\E t \in Txs : ~Finished(t)) => ENABLED NextConc
    /\ (Len(commits) = 2 /\ txs[1].uuid = txs[2].uuid) =>
           /\ Cardinality(RowsOfUUID(rows, txs[1].uuid)) = 1
           /\ \A r \in RowsOfUUID(rows, txs[1].uuid) : WrittenBy(r, commits[2])

\* Transactions of two nodes wrote the same UUID with different types and
\* projects, and both have committed.
C12_Witness ==
    /\ Len(commits) = 2
    /\ txs[1].uuid = txs[2].uuid
    /\ txs[1].node # txs[2].node
    /\ txs[1].type # txs[2].type
    /\ txs[1].project # txs[2].project
    /\ \E r \in rows : WrittenBy(r, commits[2])

====
